---- MODULE Spec2Model ----
(***************************************************************************)
(* dreamdeck: a MIDI control surface bridged to the PulseAudio mixer.      *)
(*                                                                         *)
(* The model covers the Targetable resolvers and the Deck handlers of      *)
(* src/src/main.rs and src/src/deck.rs, the Target operations of           *)
(* src/src/target.rs, the Binding constructors of src/src/binding.rs and   *)
(* the producer/consumer loop of main().  The PulseAudio server and the    *)
(* MIDI output port are the environment: their state is part of the model  *)
(* and changes through the environment actions.                            *)
(***************************************************************************)
EXTENDS Integers, Sequences, FiniteSets, TLC

(***************************************************************************)
(* Program constants                                                       *)
(***************************************************************************)
KNOB_UPDATE == 186
BTN_DOWN == 154
BTN_UP == 138
\* pulse::volume::Volume::NORMAL.0 (PA_VOLUME_NORM)
NORMAL == 65536

(***************************************************************************)
(* Bounds of the model                                                     *)
(***************************************************************************)
\* most application streams alive at once
MaxApps == 2
\* most items waiting in the channel of main()
MaxQueue == 2

\* a control index no table binds
UnboundCtl == {7}
\* knob positions the surface sends
KnobValues == {64, 127}
NoName == "<none>"
APPLICATION_NAME == "application.name"
\* property lists of the streams that come and go
AppProps ==
  { [k \in {APPLICATION_NAME} |-> "Firefox"],
    [k \in {APPLICATION_NAME} |-> "mpv"],
    [k \in {"application.process.binary"} |-> "Firefox"] }

(***************************************************************************)
(* Targetable values (main.rs) as records                                  *)
(***************************************************************************)
Sink(i) == [k |-> "Sink", idx |-> i]
Source(i) == [k |-> "Source", idx |-> i]
PropertyMatchSink(p, v) == [k |-> "Prop", prop |-> p, value |-> v]
app_name(name) == PropertyMatchSink(APPLICATION_NAME, name)
FirstValidTarget(ts) == [k |-> "First", kids |-> ts]
AlwaysNone == [k |-> "None"]
AlwaysError == [k |-> "Error"]

\* Binding and its constructors
volume(t) == [kind |-> "VolumeControl", t |-> t]
mute(t) == [kind |-> "MuteToggle", t |-> t]
select(t) == [kind |-> "DefaultSelect", t |-> t]

(***************************************************************************)
(* The three outcomes of Result<Option<T>>                                 *)
(***************************************************************************)
Found(e) == [res |-> "Found", ent |-> e]
NotFound == [res |-> "NotFound"]
Failure(why) == [res |-> "Failure", err |-> why]

Ok == [tag |-> "Ok"]
Err(why) == [tag |-> "Err", err |-> why]
Panic(why) == [tag |-> "Panic", err |-> why]

\* enum Target of main.rs: what a getter resolves to
DeviceSink(i, d) == [kind |-> "DeviceSink", index |-> i, volume |-> d.volume, mute |-> d.mute, name |-> d.name]
DeviceSource(i, d) == [kind |-> "DeviceSource", index |-> i, volume |-> d.volume, mute |-> d.mute, name |-> d.name]
AppSink(app) == [kind |-> "AppSink", index |-> app.index, volume |-> app.volume, mute |-> app.mute, name |-> NoName]

(***************************************************************************)
(* The audio server as the controllers see it.  audio.sinks and            *)
(* audio.sources map a device index to its DeviceInfo (present says        *)
(* whether the index still exists), audio.apps is list_applications() in   *)
(* the server's enumeration order.  fault is the set of services whose     *)
(* queries currently error.  overflow_checks is the build's setting of     *)
(* that name: arithmetic overflow panics when it is on and wraps when off. *)
(***************************************************************************)
VARIABLES bindings, order, audio, fault, surfaceUp,
          last, result, out, calls, muts,
          queue, running, handling, listening, overflow_checks

vars == <<bindings, order, audio, fault, surfaceUp, last, result, out, calls, muts,
          queue, running, handling, listening, overflow_checks>>

RECURSIVE SumSeq(_)
SumSeq(s) == IF s = <<>> THEN 0 ELSE Head(s) + SumSeq(Tail(s))

\* avg gone wrong: the channels are added up and not divided
avg_sum(cv) == SumSeq(cv)

\* ChannelVolumes::avg
avg(cv) == IF Len(cv) = 0 THEN 0 ELSE SumSeq(cv) \div Len(cv)

\* ChannelVolumes::set(len, v): every channel gets v
cvset(cv, v) == [i \in 1..Len(cv) |-> v]

\* DeviceControl::get_device_by_index
get_device_by_index(devs, svc, f, i) ==
  IF svc \in f THEN [ok |-> FALSE, err |-> "pulse: query failed"]
  ELSE IF i \notin DOMAIN devs \/ ~devs[i].present THEN [ok |-> FALSE, err |-> "pulse: no such device"]
  ELSE [ok |-> TRUE, dev |-> devs[i]]

\* AppControl::list_applications
list_applications(a, f) ==
  IF "apps" \in f THEN [ok |-> FALSE, err |-> "pulse: query failed"]
  ELSE [ok |-> TRUE, apps |-> a.apps]

\* Proplist::get_str(p).filter(|v| value == v).is_some()
prop_matches(app, p, v) == p \in DOMAIN app.proplist /\ app.proplist[p] = v

\* find_from gone wrong: the last stream that matches
RECURSIVE find_last(_, _, _, _)
find_last(apps, i, p, v) ==
  IF i > Len(apps) THEN NotFound
  ELSE LET rest == find_last(apps, i + 1, p, v)
       IN  IF rest.res = "Found" THEN rest
           ELSE IF prop_matches(apps[i], p, v) THEN Found(apps[i]) ELSE NotFound

\* Iterator::find over the stream list: the first stream that matches
RECURSIVE find_from(_, _, _, _)
find_from(apps, i, p, v) ==
  IF i > Len(apps) THEN NotFound
  ELSE IF prop_matches(apps[i], p, v) THEN Found(apps[i])
  ELSE find_from(apps, i + 1, p, v)

\* PropertyMatchSink::find_app
find_app(p, v, a, f) ==
  LET l == list_applications(a, f)
  IN  IF ~l.ok THEN Failure(l.err) ELSE find_from(l.apps, 1, p, v)

\* one entry of the call log: the getter t, called for control ctl at
\* position path of its composite, returned r
Call(ctl, path, t, r) == [ctl |-> ctl, path |-> path, t |-> t, r |-> r]

\* Sink_get_target gone wrong: a missing device is reported as absent
Sink_get_target_absent(t, a, f) ==
  LET q == get_device_by_index(a.sinks, "sinks", f, t.idx)
  IN  IF q.ok THEN Found(DeviceSink(t.idx, q.dev)) ELSE NotFound

\* Sink_get_target gone wrong: a device resolved once is kept and handed
\* out again
Sink_get_target_cached(t, a, f) ==
  LET seen == {n \in DOMAIN calls : calls[n].t = t /\ calls[n].r.res = "Found"}
      q == get_device_by_index(a.sinks, "sinks", f, t.idx)
  IN  IF seen # {} THEN calls[CHOOSE n \in seen : TRUE].r
      ELSE IF q.ok THEN Found(DeviceSink(t.idx, q.dev)) ELSE Failure(q.err)

\* impl Targetable for Sink
Sink_get_target(t, a, f) ==
  LET q == get_device_by_index(a.sinks, "sinks", f, t.idx)
  IN  IF q.ok THEN Found(DeviceSink(t.idx, q.dev)) ELSE Failure(q.err)

\* impl Targetable for Source
Source_get_target(t, a, f) ==
  LET q == get_device_by_index(a.sources, "sources", f, t.idx)
  IN  IF q.ok THEN Found(DeviceSource(t.idx, q.dev)) ELSE Failure(q.err)

\* impl Targetable for PropertyMatchSink
PropertyMatchSink_get_target(t, a, f) ==
  LET r == find_app(t.prop, t.value, a, f)
  IN  IF r.res = "Found" THEN Found(AppSink(r.ent)) ELSE r

\* first_valid_filter gone wrong: errors fall through like absences
first_valid_filter_some(r) == r.res = "Found"

\* the filter of FirstValidTarget::get_target: a child result that ends the search
first_valid_filter(r) == r.res = "Failure" \/ r.res = "Found"

RECURSIVE get_target(_, _, _, _, _)
RECURSIVE first_valid(_, _, _, _, _, _, _)
RECURSIVE first_valid_eager(_, _, _, _, _, _, _)

\* first_valid gone wrong: every child is called before the first valid
\* result is picked (a collect() before the filter)
first_valid_eager(kids, i, a, f, ctl, path, acc) ==
  IF i > Len(kids) THEN [r |-> NotFound, calls |-> acc]
  ELSE LET c == get_target(kids[i], a, f, ctl, Append(path, i))
           rest == first_valid_eager(kids, i + 1, a, f, ctl, path, acc \o c.calls)
       IN  [r |-> IF first_valid_filter(c.r) THEN c.r ELSE rest.r, calls |-> rest.calls]

\* FirstValidTarget::get_target: the lazy map/filter/next over the children.
\* Children are called one by one; the first whose result passes the filter
\* is the result and later children are never called.
first_valid(kids, i, a, f, ctl, path, acc) ==
  IF i > Len(kids) THEN [r |-> NotFound, calls |-> acc]
  ELSE LET c == get_target(kids[i], a, f, ctl, Append(path, i))
       IN  IF first_valid_filter(c.r)
           THEN [r |-> c.r, calls |-> acc \o c.calls]
           ELSE first_valid(kids, i + 1, a, f, ctl, path, acc \o c.calls)

\* Targetable::get_target, dispatched on the implementing type.  Returns the
\* outcome r and the getter calls made, in the order they returned.
get_target(t, a, f, ctl, path) ==
  IF t.k = "First"
  THEN LET fv == first_valid(t.kids, 1, a, f, ctl, path, <<>>)
       IN  [r |-> fv.r, calls |-> Append(fv.calls, Call(ctl, path, t, fv.r))]
  ELSE LET r == CASE t.k = "Sink" -> Sink_get_target(t, a, f)
                  [] t.k = "Source" -> Source_get_target(t, a, f)
                  [] t.k = "Prop" -> PropertyMatchSink_get_target(t, a, f)
                  [] t.k = "None" -> NotFound
                  [] t.k = "Error" -> Failure("AlwaysError always errors")
       IN  [r |-> r, calls |-> <<Call(ctl, path, t, r)>>]

(***************************************************************************)
(* Deck                                                                    *)
(***************************************************************************)
SendFailed == "midi: send failed"

\* MidiOutputConnection::send: the message goes out, or the port is gone
midi_send(up, o, msg) ==
  IF up THEN [ok |-> TRUE, out |-> Append(o, msg)] ELSE [ok |-> FALSE, out |-> o]

\* DeviceControl::get_default_device
get_default_device(def, svc, f) ==
  IF svc \in f THEN [ok |-> FALSE, err |-> "pulse: query failed"]
  ELSE [ok |-> TRUE, index |-> def]

\* ((vol.0 * 127) / Volume::NORMAL.0) as u8, in u32 arithmetic that wraps:
\* with vol = h * 2^16 + l the quotient is (h * 127 + (l * 127) / 2^16) mod 2^16,
\* and the cast keeps its low eight bits
knob_level(v) ==
  LET h == v \div NORMAL
      l == v % NORMAL
  IN  ((h * 127 + (l * 127) \div NORMAL) % NORMAL) % (2 ^ 8)

\* vol.0 * 127 does not fit u32: with vol = h * 2^16 + l the product is
\* (h * 127 + (l * 127) / 2^16) * 2^16 + ((l * 127) mod 2^16)
level_overflows(v) ==
  LET h == v \div NORMAL
      l == v % NORMAL
  IN  h * 127 + (l * 127) \div NORMAL >= NORMAL

St(res, o, cs) == [result |-> res, out |-> o, calls |-> cs]

\* self.midi_out.send(msg)?  inside the loop of flush_values_to_board
flush_emit(up, st, cs, msg) ==
  LET s == midi_send(up, st.out, msg)
  IN  IF s.ok THEN St(Ok, s.out, cs) ELSE St(Err(SendFailed), s.out, cs)

\* flush_values_to_board, the arm Binding::VolumeControl
flush_volume(c, g, up, st, cs) ==
  CASE g.r.res = "Found" /\ overflow_checks /\ level_overflows(avg(g.r.ent.volume)) ->
         St(Panic("attempt to multiply with overflow"), st.out, cs)
    [] g.r.res = "Found" /\ ~(overflow_checks /\ level_overflows(avg(g.r.ent.volume))) ->
         flush_emit(up, st, cs, <<KNOB_UPDATE, c, knob_level(avg(g.r.ent.volume))>>)
    [] g.r.res = "NotFound" -> flush_emit(up, st, cs, <<KNOB_UPDATE, c, 0>>)
    [] g.r.res = "Failure" -> St(Err(g.r.err), st.out, cs)

\* flush_mute gone wrong: the indicator is set with the release opcode
flush_mute_up(c, g, up, st, cs) ==
  CASE g.r.res = "Found" -> flush_emit(up, st, cs, <<BTN_UP, c, IF g.r.ent.mute THEN 1 ELSE 0>>)
    [] g.r.res = "NotFound" -> flush_emit(up, st, cs, <<BTN_UP, c, 0>>)
    [] g.r.res = "Failure" -> St(Err(g.r.err), st.out, cs)

\* flush_values_to_board, the arm Binding::MuteToggle
flush_mute(c, g, up, st, cs) ==
  CASE g.r.res = "Found" -> flush_emit(up, st, cs, <<BTN_DOWN, c, IF g.r.ent.mute THEN 1 ELSE 0>>)
    [] g.r.res = "NotFound" -> flush_emit(up, st, cs, <<BTN_DOWN, c, 0>>)
    [] g.r.res = "Failure" -> St(Err(g.r.err), st.out, cs)

\* the match on the resolved Target in the arm Binding::DefaultSelect
flush_selected(c, e, a, f, up, st, cs) ==
  IF e.kind = "AppSink"
  THEN St(Err("App sinks can't be used for select bindings"), st.out, cs)
  ELSE LET svc == IF e.kind = "DeviceSink" THEN "sinks" ELSE "sources"
           def == IF e.kind = "DeviceSink" THEN a.defSink ELSE a.defSource
           d == get_default_device(def, svc, f)
           dt == [k |-> IF svc = "sinks" THEN "DefaultSink" ELSE "DefaultSource"]
       IN  IF ~d.ok
           THEN St(Err(d.err), st.out, Append(cs, Call(c, <<0>>, dt, Failure(d.err))))
           ELSE flush_emit(up, st, Append(cs, Call(c, <<0>>, dt, Found(d.index))),
                           <<BTN_DOWN, c, IF d.index = e.index THEN 127 ELSE 0>>)

\* flush_values_to_board, the arm Binding::DefaultSelect
flush_select(c, g, a, f, up, st, cs) ==
  CASE g.r.res = "Found" -> flush_selected(c, g.r.ent, a, f, up, st, cs)
    [] g.r.res = "Failure" -> St(Err(g.r.err), st.out, cs)
    \* "It is valid for mappings not to have any current targets"
    [] g.r.res = "NotFound" -> St(Ok, st.out, cs)

\* one iteration of the loop of flush_values_to_board: control c, binding b.
\* st is [result, out, calls]; the iteration leaves result Ok to go on.
flush_one(c, b, a, f, up, st) ==
  LET g == get_target(b.t, a, f, c, <<>>)
      cs == st.calls \o g.calls
  IN  CASE b.kind = "VolumeControl" -> flush_volume(c, g, up, st, cs)
        [] b.kind = "MuteToggle" -> flush_mute(c, g, up, st, cs)
        [] b.kind = "DefaultSelect" -> flush_select(c, g, a, f, up, st, cs)

\* flush_from gone wrong: the loop goes on after a failed control and
\* returns the first error at the end
RECURSIVE flush_from_all(_, _, _, _, _, _, _)
flush_from_all(i, bs, ord, a, f, up, st) ==
  IF i > Len(ord) THEN st
  ELSE LET nx == flush_one(ord[i], bs[ord[i]], a, f, up, st)
       IN  flush_from_all(i + 1, bs, ord, a, f, up,
                          [nx EXCEPT !.result = IF st.result.tag = "Ok" THEN nx.result ELSE st.result])

RECURSIVE flush_from(_, _, _, _, _, _, _)
flush_from(i, bs, ord, a, f, up, st) ==
  IF i > Len(ord) THEN st
  ELSE LET nx == flush_one(ord[i], bs[ord[i]], a, f, up, st)
       IN  IF nx.result.tag = "Ok" THEN flush_from(i + 1, bs, ord, a, f, up, nx) ELSE nx

\* flush_values_to_board gone wrong: showing the state mutes the speakers
flush_values_to_board_muting(bs, ord, a, f, up) ==
  LET st == flush_from(1, bs, ord, a, f, up, [result |-> Ok, out |-> <<>>, calls |-> <<>>])
  IN  [result |-> st.result, out |-> st.out, calls |-> st.calls, muts |-> <<>>,
       audio |-> [a EXCEPT !.sinks[0].mute = TRUE]]

\* flush_values_to_board gone wrong: the control shown last becomes the
\* default sink
flush_values_to_board_selecting(bs, ord, a, f, up) ==
  LET st == flush_from(1, bs, ord, a, f, up, [result |-> Ok, out |-> <<>>, calls |-> <<>>])
  IN  [result |-> st.result, out |-> st.out, calls |-> st.calls, muts |-> <<>>,
       audio |-> [a EXCEPT !.defSink = 1]]

\* Deck::flush_values_to_board.  ord is the iteration order of the HashMap.
flush_values_to_board(bs, ord, a, f, up) ==
  LET st == flush_from(1, bs, ord, a, f, up, [result |-> Ok, out |-> <<>>, calls |-> <<>>])
  IN  [result |-> st.result, out |-> st.out, calls |-> st.calls, muts |-> <<>>, audio |-> a]

\* knob_volume gone wrong: the knob position is taken for a full byte
knob_volume_byte(value) == (value * NORMAL) \div 255

\* (new_vol * Volume::NORMAL.0 as f32) as u32 with new_vol = value as f32 / 127.0.
\* The f32 quotient is within 2^-25 of value/127 and the scaled value is at
\* least 1/127 away from the next integer, so the cast truncates to this.
knob_volume(value) == (value * NORMAL) \div 127

Mut(op, index, v) == [op |-> op, index |-> index, v |-> v]

\* DeviceControl::set_device_volume_by_index / set_device_mute_by_index on the
\* sink controller: no result is returned, a missing device is left alone
set_sink(a, i, fld, v) ==
  IF i \in DOMAIN a.sinks /\ a.sinks[i].present
  THEN [a EXCEPT !.sinks[i][fld] = v] ELSE a

set_source(a, i, fld, v) ==
  IF i \in DOMAIN a.sources /\ a.sources[i].present
  THEN [a EXCEPT !.sources[i][fld] = v] ELSE a

\* set_sink_input_volume / AppControl::set_app_mute: by stream index
set_app(a, i, fld, v) ==
  [a EXCEPT !.apps = [n \in 1..Len(a.apps) |->
      IF a.apps[n].index = i THEN [a.apps[n] EXCEPT ![fld] = v] ELSE a.apps[n]]]

\* DeviceControl::set_default_device(name): the device of that name becomes
\* the default
set_default_sink(a, name) ==
  IF \E i \in DOMAIN a.sinks : a.sinks[i].present /\ a.sinks[i].name = name
  THEN [a EXCEPT !.defSink = CHOOSE i \in DOMAIN a.sinks : a.sinks[i].present /\ a.sinks[i].name = name]
  ELSE a

set_default_source(a, name) ==
  IF \E i \in DOMAIN a.sources : a.sources[i].present /\ a.sources[i].name = name
  THEN [a EXCEPT !.defSource = CHOOSE i \in DOMAIN a.sources : a.sources[i].present /\ a.sources[i].name = name]
  ELSE a

Done(res, o, cs, ms, a) == [result |-> res, out |-> o, calls |-> cs, muts |-> ms, audio |-> a]

\* knob_update, the match on the resolved Target
knob_set(e, value, cs, a) ==
  LET vol == cvset(e.volume, knob_volume(value))
  IN  CASE e.kind = "DeviceSink" ->
             Done(Ok, <<>>, cs, <<Mut("set_sink_volume", e.index, vol)>>,
                  set_sink(a, e.index, "volume", vol))
        [] e.kind = "AppSink" ->
             Done(Ok, <<>>, cs, <<Mut("set_sink_input_volume", e.index, vol)>>,
                  set_app(a, e.index, "volume", vol))
        \* Target::DeviceSource(_) => todo!()
        [] e.kind = "DeviceSource" -> Done(Panic("not yet implemented"), <<>>, cs, <<>>, a)

\* knob_bound gone wrong: a knob with nothing to control is an error
knob_bound_strict(g, value, a) ==
  CASE g.r.res = "Found" -> knob_set(g.r.ent, value, g.calls, a)
    [] g.r.res = "NotFound" -> Done(Err("no target"), <<>>, g.calls, <<>>, a)
    [] g.r.res = "Failure" -> Done(Err(g.r.err), <<>>, g.calls, <<>>, a)

\* knob_update on a VolumeControl binding
knob_bound(g, value, a) ==
  CASE g.r.res = "Found" -> knob_set(g.r.ent, value, g.calls, a)
    [] g.r.res = "NotFound" -> Done(Ok, <<>>, g.calls, <<>>, a)
    [] g.r.res = "Failure" -> Done(Err(g.r.err), <<>>, g.calls, <<>>, a)

\* knob_update gone wrong: an unmapped knob is ignored without the reset
knob_update_silent(bs, a, f, up, knob, value) ==
  IF knob \in DOMAIN bs
  THEN IF bs[knob].kind = "VolumeControl"
       THEN knob_bound(get_target(bs[knob].t, a, f, knob, <<>>), value, a)
       ELSE Done(Err("Only knobs can be bound to volume control"), <<>>, <<>>, <<>>, a)
  ELSE Done(Ok, <<>>, <<>>, <<>>, a)

\* Deck::knob_update
knob_update(bs, a, f, up, knob, value) ==
  IF knob \in DOMAIN bs
  THEN IF bs[knob].kind = "VolumeControl"
       THEN knob_bound(get_target(bs[knob].t, a, f, knob, <<>>), value, a)
       ELSE Done(Err("Only knobs can be bound to volume control"), <<>>, <<>>, <<>>, a)
  ELSE \* Ignore and zero out changes to unmapped knobs
       LET s == midi_send(up, <<>>, <<KNOB_UPDATE, knob, 0>>)
       IN  Done(IF s.ok THEN Ok ELSE Err(SendFailed), s.out, <<>>, <<>>, a)

\* btn_toggle gone wrong: the button mutes, and never unmutes
btn_toggle_on(e, cs, a) ==
  CASE e.kind = "DeviceSink" ->
         Done(Ok, <<>>, cs, <<Mut("set_sink_mute", e.index, TRUE)>>,
              set_sink(a, e.index, "mute", TRUE))
    [] e.kind = "DeviceSource" ->
         Done(Ok, <<>>, cs, <<Mut("set_source_mute", e.index, TRUE)>>,
              set_source(a, e.index, "mute", TRUE))
    [] e.kind = "AppSink" ->
         Done(Ok, <<>>, cs, <<Mut("set_app_mute", e.index, TRUE)>>,
              set_app(a, e.index, "mute", TRUE))

\* btn_press on a MuteToggle binding, the match on the resolved Target
btn_toggle(e, cs, a) ==
  CASE e.kind = "DeviceSink" ->
         Done(Ok, <<>>, cs, <<Mut("set_sink_mute", e.index, ~e.mute)>>,
              set_sink(a, e.index, "mute", ~e.mute))
    [] e.kind = "DeviceSource" ->
         Done(Ok, <<>>, cs, <<Mut("set_source_mute", e.index, ~e.mute)>>,
              set_source(a, e.index, "mute", ~e.mute))
    [] e.kind = "AppSink" ->
         Done(Ok, <<>>, cs, <<Mut("set_app_mute", e.index, ~e.mute)>>,
              set_app(a, e.index, "mute", ~e.mute))

\* btn_select gone wrong: a stream bound to a select button is passed over
btn_select_lenient(e, cs, a) ==
  CASE e.kind = "AppSink" -> Done(Ok, <<>>, cs, <<>>, a)
    [] e.kind # "AppSink" /\ e.name = NoName ->
         Done(Err("Default device must have name"), <<>>, cs, <<>>, a)
    [] e.kind = "DeviceSink" /\ e.name # NoName ->
         Done(Ok, <<>>, cs, <<Mut("set_default_sink", e.index, e.name)>>, set_default_sink(a, e.name))
    [] e.kind = "DeviceSource" /\ e.name # NoName ->
         Done(Ok, <<>>, cs, <<Mut("set_default_source", e.index, e.name)>>, set_default_source(a, e.name))

\* btn_press on a DefaultSelect binding, the match on the resolved Target
btn_select(e, cs, a) ==
  CASE e.kind = "AppSink" ->
         Done(Err("App sinks can't be used for select bindings"), <<>>, cs, <<>>, a)
    [] e.kind # "AppSink" /\ e.name = NoName ->
         Done(Err("Default device must have name"), <<>>, cs, <<>>, a)
    [] e.kind = "DeviceSink" /\ e.name # NoName ->
         Done(Ok, <<>>, cs, <<Mut("set_default_sink", e.index, e.name)>>, set_default_sink(a, e.name))
    [] e.kind = "DeviceSource" /\ e.name # NoName ->
         Done(Ok, <<>>, cs, <<Mut("set_default_source", e.index, e.name)>>, set_default_source(a, e.name))

\* btn_bound gone wrong: a button bound to a volume control is ignored
btn_bound_lenient(b, g, a) ==
  CASE b.kind = "VolumeControl" -> Done(Ok, <<>>, <<>>, <<>>, a)
    [] b.kind # "VolumeControl" /\ g.r.res = "Failure" -> Done(Err(g.r.err), <<>>, g.calls, <<>>, a)
    [] b.kind # "VolumeControl" /\ g.r.res = "NotFound" -> Done(Ok, <<>>, g.calls, <<>>, a)
    [] b.kind = "MuteToggle" /\ g.r.res = "Found" -> btn_toggle(g.r.ent, g.calls, a)
    [] b.kind = "DefaultSelect" /\ g.r.res = "Found" -> btn_select(g.r.ent, g.calls, a)

\* btn_press on a bound button
btn_bound(b, g, a) ==
  CASE b.kind = "VolumeControl" ->
         Done(Err("Buttons can not be bound to volume control"), <<>>, <<>>, <<>>, a)
    [] b.kind # "VolumeControl" /\ g.r.res = "Failure" -> Done(Err(g.r.err), <<>>, g.calls, <<>>, a)
    \* "It is valid for mappings not to have any current targets"
    [] b.kind # "VolumeControl" /\ g.r.res = "NotFound" -> Done(Ok, <<>>, g.calls, <<>>, a)
    [] b.kind = "MuteToggle" /\ g.r.res = "Found" -> btn_toggle(g.r.ent, g.calls, a)
    [] b.kind = "DefaultSelect" /\ g.r.res = "Found" -> btn_select(g.r.ent, g.calls, a)

\* Deck::btn_press
btn_press(bs, a, f, btn) ==
  IF btn \in DOMAIN bs
  THEN btn_bound(bs[btn], get_target(bs[btn].t, a, f, btn, <<>>), a)
  ELSE \* unbound button, do nothing
       Done(Ok, <<>>, <<>>, <<>>, a)

\* handle_midi_message gone wrong: a button acts when pressed and again when
\* released
handle_midi_message_press(bs, a, f, up, message) ==
  CASE Len(message) = 3 /\ message[1] = KNOB_UPDATE -> knob_update(bs, a, f, up, message[2], message[3])
    [] Len(message) = 3 /\ message[1] = BTN_DOWN -> btn_press(bs, a, f, message[2])
    [] Len(message) = 3 /\ message[1] = BTN_UP -> btn_press(bs, a, f, message[2])
    [] OTHER -> Done(Ok, <<>>, <<>>, <<>>, a)

\* Deck::midi_message (main.rs), Deck::handle_midi_message (deck.rs): the
\* slice patterns match three-byte messages only
handle_midi_message(bs, a, f, up, message) ==
  CASE Len(message) = 3 /\ message[1] = KNOB_UPDATE -> knob_update(bs, a, f, up, message[2], message[3])
    [] Len(message) = 3 /\ message[1] = BTN_DOWN -> Done(Ok, <<>>, <<>>, <<>>, a)
    [] Len(message) = 3 /\ message[1] = BTN_UP -> btn_press(bs, a, f, message[2])
    [] OTHER -> Done(Ok, <<>>, <<>>, <<>>, a)

(***************************************************************************)
(* enum Target of target.rs and its operations.  StaticSink, StaticSource  *)
(* and SinkWithProperty are the records Sink, Source and PropertyMatchSink *)
(* above.  An operation returns its outcome r, the getter calls and        *)
(* mutations it made and the audio state it leaves.                        *)
(***************************************************************************)
\* (TLC defines Any)
Target_Any(ts) == [k |-> "Any", kids |-> ts]
Target_All(ts) == [k |-> "All", kids |-> ts]

\* unwrap() of an Err, todo!()
Panicked(why) == [res |-> "Panic", err |-> why]
Unit == "()"

T(r, cs, ms, a) == [r |-> r, calls |-> cs, muts |-> ms, audio |-> a]
\* a leaf operation: one call entry for the target itself
Leaf(t, path, r, ms, a) == T(r, <<Call(0, path, t, r)>>, ms, a)

\* AppControl::get_app_by_index
get_app_by_index(a, f, i) ==
  IF "apps" \in f THEN [ok |-> FALSE, err |-> "pulse: query failed"]
  ELSE IF \E n \in 1..Len(a.apps) : a.apps[n].index = i
       THEN [ok |-> TRUE, app |-> a.apps[CHOOSE n \in 1..Len(a.apps) : a.apps[n].index = i]]
       ELSE [ok |-> FALSE, err |-> "pulse: no such stream"]

\* (new_vol * (Volume::NORMAL.0 - 1) as f32) as u32 for new_vol = k / 127.0: the
\* two f32 roundings move the product by less than 1/127, so the cast
\* truncates the exact quotient
target_volume(k) == (k * (NORMAL - 1)) \div 127

RECURSIVE Target_volume(_, _, _, _)
RECURSIVE any_volume(_, _, _, _, _, _)

\* Target::volume, the arm Target::Any
any_volume(kids, i, a, f, path, acc) ==
  IF i > Len(kids) THEN T(NotFound, acc, <<>>, a)
  ELSE LET c == Target_volume(kids[i], a, f, Append(path, i))
       IN  IF c.r.res # "NotFound" THEN T(c.r, acc \o c.calls, <<>>, a)
           ELSE any_volume(kids, i + 1, a, f, path, acc \o c.calls)

\* Target::volume
Target_volume(t, a, f, path) ==
  CASE t.k = "Sink" ->
         LET q == get_device_by_index(a.sinks, "sinks", f, t.idx)
         IN  Leaf(t, path, IF q.ok THEN Found(avg(q.dev.volume)) ELSE Failure(q.err), <<>>, a)
    [] t.k = "Source" ->
         LET q == get_device_by_index(a.sources, "sources", f, t.idx)
         IN  Leaf(t, path, IF q.ok THEN Found(avg(q.dev.volume)) ELSE Failure(q.err), <<>>, a)
    [] t.k = "Prop" ->
         LET r == find_app(t.prop, t.value, a, f)
         IN  Leaf(t, path, IF r.res = "Found" THEN Found(avg(r.ent.volume)) ELSE r, <<>>, a)
    [] t.k = "Any" ->
         LET l == any_volume(t.kids, 1, a, f, path, <<>>)
         IN  T(l.r, Append(l.calls, Call(0, path, t, l.r)), <<>>, a)
    [] t.k = "All" -> Leaf(t, path, Panicked("not yet implemented"), <<>>, a)

RECURSIVE Target_set_volume(_, _, _, _, _)
RECURSIVE any_set_volume(_, _, _, _, _, _, _)

\* Target::set_volume, the arm Target::Any
any_set_volume(kids, i, a, f, k, path, acc) ==
  IF i > Len(kids) THEN T(NotFound, acc, <<>>, a)
  ELSE LET c == Target_set_volume(kids[i], a, f, k, Append(path, i))
       IN  IF c.r.res # "NotFound" THEN T(c.r, acc \o c.calls, c.muts, c.audio)
           ELSE any_set_volume(kids, i + 1, a, f, k, path, acc \o c.calls)

\* Target::set_volume with new_vol = k / 127.0
Target_set_volume(t, a, f, k, path) ==
  CASE t.k = "Sink" ->
         LET q == get_device_by_index(a.sinks, "sinks", f, t.idx)
         IN  IF ~q.ok THEN Leaf(t, path, Failure(q.err), <<>>, a)
             ELSE LET vol == cvset(q.dev.volume, target_volume(k))
                  IN  Leaf(t, path, Found(Unit), <<Mut("set_sink_volume", t.idx, vol)>>,
                           set_sink(a, t.idx, "volume", vol))
    \* the arm reads and writes the sink input of that index
    [] t.k = "Source" ->
         LET q == get_app_by_index(a, f, t.idx)
         IN  IF ~q.ok THEN Leaf(t, path, Failure(q.err), <<>>, a)
             ELSE LET vol == cvset(q.app.volume, target_volume(k))
                  IN  Leaf(t, path, Found(Unit), <<Mut("set_sink_input_volume", t.idx, vol)>>,
                           set_app(a, t.idx, "volume", vol))
    [] t.k = "Prop" ->
         LET r == find_app(t.prop, t.value, a, f)
         IN  IF r.res # "Found" THEN Leaf(t, path, r, <<>>, a)
             ELSE LET vol == cvset(r.ent.volume, target_volume(k))
                  IN  Leaf(t, path, Found(Unit), <<Mut("set_sink_input_volume", r.ent.index, vol)>>,
                           set_app(a, r.ent.index, "volume", vol))
    [] t.k = "Any" ->
         LET l == any_set_volume(t.kids, 1, a, f, k, path, <<>>)
         IN  T(l.r, Append(l.calls, Call(0, path, t, l.r)), l.muts, l.audio)
    [] t.k = "All" -> Leaf(t, path, Panicked("not yet implemented"), <<>>, a)

\* Result::unwrap
unwrap(r) == IF r.res = "Failure" THEN Panicked("called Result::unwrap() on an Err value") ELSE r

RECURSIVE Target_muted(_, _, _, _)
RECURSIVE any_muted(_, _, _, _, _, _)

\* Target::muted, the arm Target::Any
any_muted(kids, i, a, f, path, acc) ==
  IF i > Len(kids) THEN T(NotFound, acc, <<>>, a)
  ELSE LET c == Target_muted(kids[i], a, f, Append(path, i))
           u == unwrap(c.r)
       IN  IF u.res # "NotFound" THEN T(u, acc \o c.calls, <<>>, a)
           ELSE any_muted(kids, i + 1, a, f, path, acc \o c.calls)

\* Target::muted
Target_muted(t, a, f, path) ==
  CASE t.k = "Sink" ->
         LET q == get_device_by_index(a.sinks, "sinks", f, t.idx)
         IN  Leaf(t, path, unwrap(IF q.ok THEN Found(q.dev.mute) ELSE Failure(q.err)), <<>>, a)
    [] t.k = "Source" ->
         LET q == get_device_by_index(a.sources, "sources", f, t.idx)
         IN  Leaf(t, path, unwrap(IF q.ok THEN Found(q.dev.mute) ELSE Failure(q.err)), <<>>, a)
    [] t.k = "Prop" ->
         LET r == unwrap(find_app(t.prop, t.value, a, f))
         IN  Leaf(t, path, IF r.res = "Found" THEN Found(r.ent.mute) ELSE r, <<>>, a)
    [] t.k = "Any" ->
         LET l == any_muted(t.kids, 1, a, f, path, <<>>)
         IN  T(l.r, Append(l.calls, Call(0, path, t, l.r)), <<>>, a)
    [] t.k = "All" -> Leaf(t, path, Panicked("not yet implemented"), <<>>, a)

RECURSIVE Target_toggle_muted(_, _, _, _)
RECURSIVE any_toggle_muted(_, _, _, _, _, _)

\* Target::toggle_muted, the arm Target::Any
any_toggle_muted(kids, i, a, f, path, acc) ==
  IF i > Len(kids) THEN T(NotFound, acc, <<>>, a)
  ELSE LET c == Target_toggle_muted(kids[i], a, f, Append(path, i))
       IN  IF c.r.res # "NotFound" THEN T(c.r, acc \o c.calls, c.muts, c.audio)
           ELSE any_toggle_muted(kids, i + 1, a, f, path, acc \o c.calls)

\* Target::toggle_muted
Target_toggle_muted(t, a, f, path) ==
  CASE t.k = "Sink" ->
         LET q == get_device_by_index(a.sinks, "sinks", f, t.idx)
         IN  IF ~q.ok THEN Leaf(t, path, Failure(q.err), <<>>, a)
             ELSE Leaf(t, path, Found(Unit), <<Mut("set_sink_mute", t.idx, ~q.dev.mute)>>,
                       set_sink(a, t.idx, "mute", ~q.dev.mute))
    [] t.k = "Source" ->
         LET q == get_device_by_index(a.sources, "sources", f, t.idx)
         IN  IF ~q.ok THEN Leaf(t, path, Failure(q.err), <<>>, a)
             ELSE Leaf(t, path, Found(Unit), <<Mut("set_source_mute", t.idx, ~q.dev.mute)>>,
                       set_source(a, t.idx, "mute", ~q.dev.mute))
    [] t.k = "Prop" ->
         LET r == find_app(t.prop, t.value, a, f)
         IN  IF r.res # "Found" THEN Leaf(t, path, r, <<>>, a)
             ELSE LET q == get_app_by_index(a, f, r.ent.index)
                  IN  IF ~q.ok THEN Leaf(t, path, Failure(q.err), <<>>, a)
                      ELSE Leaf(t, path, Found(Unit), <<Mut("set_app_mute", r.ent.index, ~q.app.mute)>>,
                                set_app(a, r.ent.index, "mute", ~q.app.mute))
    [] t.k = "Any" ->
         LET l == any_toggle_muted(t.kids, 1, a, f, path, <<>>)
         IN  T(l.r, Append(l.calls, Call(0, path, t, l.r)), l.muts, l.audio)
    [] t.k = "All" -> Leaf(t, path, Panicked("not yet implemented"), <<>>, a)

OnlyStatic == "Only StaticSink/StaticSource can be used for DefaultSelect bindings"

\* Target::selected
Target_selected(t, a, f, path) ==
  CASE t.k = "Sink" ->
         LET d == get_default_device(a.defSink, "sinks", f)
         IN  Leaf(t, path, IF d.ok THEN Found(d.index = t.idx) ELSE Failure(d.err), <<>>, a)
    [] t.k = "Source" ->
         LET d == get_default_device(a.defSource, "sources", f)
         IN  Leaf(t, path, IF d.ok THEN Found(d.index = t.idx) ELSE Failure(d.err), <<>>, a)
    [] OTHER -> Leaf(t, path, Failure(OnlyStatic), <<>>, a)

\* Target::set_as_selected
Target_set_as_selected(t, a, f, path) ==
  CASE t.k = "Sink" ->
         LET q == get_device_by_index(a.sinks, "sinks", f, t.idx)
         IN  IF ~q.ok THEN Leaf(t, path, Failure(q.err), <<>>, a)
             ELSE IF q.dev.name = NoName
             THEN Leaf(t, path, Failure("Device must have a name to be set as default output"), <<>>, a)
             ELSE Leaf(t, path, Found(Unit), <<Mut("set_default_sink", t.idx, q.dev.name)>>,
                       set_default_sink(a, q.dev.name))
    [] t.k = "Source" ->
         LET q == get_device_by_index(a.sources, "sources", f, t.idx)
         IN  IF ~q.ok THEN Leaf(t, path, Failure(q.err), <<>>, a)
             ELSE IF q.dev.name = NoName
             THEN Leaf(t, path, Failure("Device must have a name to be set as default input"), <<>>, a)
             ELSE Leaf(t, path, Found(Unit), <<Mut("set_default_source", t.idx, q.dev.name)>>,
                       set_default_source(a, q.dev.name))
    [] OTHER -> Leaf(t, path, Failure(OnlyStatic), <<>>, a)

(***************************************************************************)
(* Binding tables.  main() builds one table and never changes it; the      *)
(* tables below bind each kind of control to each kind of getter.          *)
(***************************************************************************)
FirefoxOrNone == FirstValidTarget(<<AlwaysNone, app_name("Firefox")>>)

\* the static devices of main(): controls 11 and 34, 32 and 33
TableDevices == (11 :> volume(Sink(0))) @@ (34 :> mute(Source(0)))
TableSelect == (32 :> select(Sink(0))) @@ (33 :> select(Sink(1)))
\* the mute buttons of the two sinks in main(): controls 40 and 41
TableMute == (40 :> mute(Sink(0))) @@ (41 :> mute(Sink(1)))
\* the dynamic bindings of main(): controls 13 and 42
TableDynamic == (13 :> volume(FirefoxOrNone)) @@ (42 :> mute(FirefoxOrNone))
\* ordered fallbacks from a stream to the sinks
TableFallback ==
  (12 :> volume(FirstValidTarget(<<app_name("Firefox"), Sink(1), Sink(0)>>)))
  @@ (35 :> select(FirstValidTarget(<<app_name("mpv"), Sink(1)>>)))
\* getters the handlers have no value for
TableEdge == (14 :> volume(Source(0))) @@ (16 :> select(app_name("Firefox")))
\* a nested and an empty composite, a getter that always errors
TableNested ==
  (15 :> mute(FirstValidTarget(<<FirstValidTarget(<<>>), AlwaysError, Sink(0)>>)))
  @@ (43 :> mute(app_name("mpv")))

Tables == {TableDevices, TableSelect, TableMute, TableDynamic, TableFallback, TableEdge, TableNested}

\* the orders in which a HashMap with these keys may iterate
Orders(S) == {o \in [1..Cardinality(S) -> S] : \A i, j \in DOMAIN o : i # j => o[i] # o[j]}

Stereo(v) == <<v, v>>
Mono(v) == <<v>>

AudioInit ==
  [sinks |-> (0 :> [present |-> TRUE, volume |-> Stereo(NORMAL), mute |-> FALSE, name |-> "speakers"])
             @@ (1 :> [present |-> TRUE, volume |-> Stereo(NORMAL), mute |-> FALSE, name |-> "headphones"]),
   sources |-> (0 :> [present |-> TRUE, volume |-> Mono(NORMAL), mute |-> FALSE, name |-> "mic"]),
   apps |-> <<>>,
   defSink |-> 0,
   defSource |-> 0]

NoOp == [op |-> "none"]

Init ==
  /\ bindings \in Tables
  /\ order \in Orders(DOMAIN bindings)
  /\ audio = AudioInit
  /\ fault = {}
  /\ surfaceUp = TRUE
  /\ last = NoOp
  /\ result = Ok
  /\ out = <<>>
  /\ calls = <<>>
  /\ muts = <<>>
  /\ queue = <<>>
  /\ running = TRUE
  /\ handling = <<>>
  /\ listening = TRUE
  /\ overflow_checks = FALSE

\* what a handler call leaves behind
Record(op, d) ==
  /\ last' = op
  /\ result' = d.result
  /\ out' = d.out
  /\ calls' = d.calls
  /\ muts' = d.muts
  /\ audio' = d.audio

\* the logs describe the last handler call in the state it left; a change of
\* the environment starts afresh
Forget ==
  /\ last' = NoOp
  /\ result' = Ok
  /\ out' = <<>>
  /\ calls' = <<>>
  /\ muts' = <<>>

Ctls == DOMAIN bindings \cup UnboundCtl

\* the messages the surface sends, and two that are none of the three kinds
Messages ==
  {<<KNOB_UPDATE, c, v>> : c \in Ctls, v \in KnobValues}
  \cup {<<op, c, 0>> : op \in {BTN_DOWN, BTN_UP}, c \in Ctls}
  \cup {<<176, c, 64>> : c \in UnboundCtl}
  \cup {<<KNOB_UPDATE, c>> : c \in DOMAIN bindings}

(***************************************************************************)
(* The Deck called directly                                                *)
(***************************************************************************)
Flush ==
  /\ running
  /\ Record([op |-> "flush"], flush_values_to_board(bindings, order, audio, fault, surfaceUp))
  /\ UNCHANGED <<bindings, order, fault, surfaceUp, queue, running, handling, listening, overflow_checks>>

MidiMessage ==
  /\ running
  /\ \E m \in Messages :
       Record([op |-> "midi", msg |-> m], handle_midi_message(bindings, audio, fault, surfaceUp, m))
  /\ UNCHANGED <<bindings, order, fault, surfaceUp, queue, running, handling, listening, overflow_checks>>

(***************************************************************************)
(* The environment                                                         *)
(***************************************************************************)
\* the server numbers a new stream with a free index and lists the streams
\* by ascending index
FreeIndices(a) == {i \in 0..(MaxApps - 1) : \A n \in 1..Len(a.apps) : a.apps[n].index # i}

RECURSIVE insert_app(_, _)
insert_app(apps, app) ==
  IF apps = <<>> THEN <<app>>
  ELSE IF app.index < Head(apps).index THEN <<app>> \o apps
  ELSE <<Head(apps)>> \o insert_app(Tail(apps), app)

\* a stream with one of the property lists P starts
AppStartWith(P) ==
  /\ Len(audio.apps) < MaxApps
  /\ \E pl \in P, i \in FreeIndices(audio) :
       audio' = [audio EXCEPT !.apps = insert_app(@, [index |-> i, proplist |-> pl,
                                                      volume |-> Stereo(NORMAL), mute |-> FALSE])]
  /\ Forget
  /\ UNCHANGED <<bindings, order, fault, surfaceUp, queue, running, handling, listening, overflow_checks>>

AppStart == AppStartWith(AppProps)

AppStop ==
  /\ \E n \in 1..Len(audio.apps) :
       audio' = [audio EXCEPT !.apps = SubSeq(@, 1, n - 1) \o SubSeq(@, n + 1, Len(@))]
  /\ Forget
  /\ UNCHANGED <<bindings, order, fault, surfaceUp, queue, running, handling, listening, overflow_checks>>

\* the headphones are unplugged: the index is gone, the default falls back
SinkUnplug ==
  /\ audio.sinks[1].present
  /\ audio' = [audio EXCEPT !.sinks[1] = [AudioInit.sinks[1] EXCEPT !.present = FALSE],
                             !.defSink = 0]
  /\ Forget
  /\ UNCHANGED <<bindings, order, fault, surfaceUp, queue, running, handling, listening, overflow_checks>>

SinkPlug ==
  /\ ~audio.sinks[1].present
  /\ audio' = [audio EXCEPT !.sinks[1] = AudioInit.sinks[1]]
  /\ Forget
  /\ UNCHANGED <<bindings, order, fault, surfaceUp, queue, running, handling, listening, overflow_checks>>

Services == {"sinks", "sources", "apps"}

\* the connection to the server is lost, and every query errors, or is back
FaultChange ==
  /\ fault' = IF fault = {} THEN Services ELSE {}
  /\ Forget
  /\ UNCHANGED <<bindings, order, audio, surfaceUp, queue, running, handling, listening, overflow_checks>>

\* the MIDI output port goes away or comes back
SurfaceChange ==
  /\ surfaceUp' = ~surfaceUp
  /\ Forget
  /\ UNCHANGED <<bindings, order, audio, fault, queue, running, handling, listening, overflow_checks>>

Env == AppStart \/ AppStop \/ SinkUnplug \/ SinkPlug \/ FaultChange \/ SurfaceChange

Next == Flush \/ MidiMessage \/ Env

Spec == Init /\ [][Next]_vars

(***************************************************************************)
(* The operations of target.rs called directly                             *)
(***************************************************************************)
LibTargets ==
  { Sink(1), Source(0), app_name("Firefox"),
    Target_Any(<<app_name("Firefox"), Sink(1), Source(0)>>),
    Target_Any(<<Target_Any(<<>>), app_name("mpv")>>),
    Target_All(<<Sink(1)>>) }

\* new_vol as the knob position it comes from
LibVolumes == {64}

LibAppProps == {pl \in AppProps : APPLICATION_NAME \in DOMAIN pl}

\* Result<Option<T>> as the caller sees it
Returned(r) ==
  CASE r.res = "Panic" -> Panic(r.err)
    [] r.res = "Failure" -> Err(r.err)
    [] OTHER -> Ok

RecordT(fn, t, k, d) ==
  Record([op |-> "target", fn |-> fn, t |-> t, arg |-> k],
         [result |-> Returned(d.r), out |-> <<>>, calls |-> d.calls, muts |-> d.muts, audio |-> d.audio])

CallVolume ==
  /\ \E t \in LibTargets : RecordT("volume", t, 0, Target_volume(t, audio, fault, <<>>))
  /\ UNCHANGED <<bindings, order, fault, surfaceUp, queue, running, handling, listening, overflow_checks>>

CallSetVolume ==
  /\ \E t \in LibTargets, k \in LibVolumes :
       RecordT("set_volume", t, k, Target_set_volume(t, audio, fault, k, <<>>))
  /\ UNCHANGED <<bindings, order, fault, surfaceUp, queue, running, handling, listening, overflow_checks>>

CallMuted ==
  /\ \E t \in LibTargets : RecordT("muted", t, 0, Target_muted(t, audio, fault, <<>>))
  /\ UNCHANGED <<bindings, order, fault, surfaceUp, queue, running, handling, listening, overflow_checks>>

CallToggleMuted ==
  /\ \E t \in LibTargets : RecordT("toggle_muted", t, 0, Target_toggle_muted(t, audio, fault, <<>>))
  /\ UNCHANGED <<bindings, order, fault, surfaceUp, queue, running, handling, listening, overflow_checks>>

CallSelected ==
  /\ \E t \in LibTargets : RecordT("selected", t, 0, Target_selected(t, audio, fault, <<>>))
  /\ UNCHANGED <<bindings, order, fault, surfaceUp, queue, running, handling, listening, overflow_checks>>

CallSetAsSelected ==
  /\ \E t \in LibTargets : RecordT("set_as_selected", t, 0, Target_set_as_selected(t, audio, fault, <<>>))
  /\ UNCHANGED <<bindings, order, fault, surfaceUp, queue, running, handling, listening, overflow_checks>>

\* the audio side of the environment; the operations never send to the surface
AppStartNamed == AppStartWith(LibAppProps)

EnvAudio == AppStartNamed \/ AppStop \/ SinkUnplug \/ SinkPlug \/ FaultChange

InitTarget == Init /\ bindings = TableDevices /\ order = <<11, 34>>

NextTarget ==
  \/ CallVolume \/ CallSetVolume \/ CallMuted \/ CallToggleMuted
  \/ CallSelected \/ CallSetAsSelected \/ EnvAudio

SpecTarget == InitTarget /\ [][NextTarget]_vars

(***************************************************************************)
(* The flush over the volumes another mixer can set: any native volume,    *)
(* above 100% included, on one or two channels, in either build            *)
(***************************************************************************)
\* 0%, 50%, 100%, 150% and a volume whose product with 127 leaves u32
LevelValues == {0, NORMAL \div 2, NORMAL, NORMAL + NORMAL \div 2, 1024 * NORMAL}
LevelVolumes == {Mono(v) : v \in LevelValues} \cup {Stereo(v) : v \in LevelValues}
                \cup {<<0, NORMAL>>}

\* the knobs 11 and 13 of main()
TableLevels == (11 :> volume(Sink(0))) @@ (13 :> volume(FirefoxOrNone))

InitLevel ==
  /\ bindings = TableLevels
  /\ order \in Orders(DOMAIN bindings)
  /\ \E cv \in LevelVolumes : audio = [AudioInit EXCEPT !.sinks[0].volume = cv]
  /\ fault = {}
  /\ surfaceUp = TRUE
  /\ last = NoOp
  /\ result = Ok
  /\ out = <<>>
  /\ calls = <<>>
  /\ muts = <<>>
  /\ queue = <<>>
  /\ running = TRUE
  /\ handling = <<>>
  /\ listening = TRUE
  /\ overflow_checks \in BOOLEAN

\* another mixer sets the volume of the speakers
VolumeChange ==
  /\ \E cv \in LevelVolumes :
       /\ cv # audio.sinks[0].volume
       /\ audio' = [audio EXCEPT !.sinks[0].volume = cv]
  /\ Forget
  /\ UNCHANGED <<bindings, order, fault, surfaceUp, queue, running, handling, listening, overflow_checks>>

\* Firefox starts playing at some volume
StreamStart ==
  /\ audio.apps = <<>>
  /\ \E cv \in LevelVolumes :
       audio' = [audio EXCEPT !.apps = <<[index |-> 0, proplist |-> [k \in {APPLICATION_NAME} |-> "Firefox"],
                                          volume |-> cv, mute |-> FALSE]>>]
  /\ Forget
  /\ UNCHANGED <<bindings, order, fault, surfaceUp, queue, running, handling, listening, overflow_checks>>

NextLevel == Flush \/ VolumeChange \/ StreamStart \/ AppStop

SpecLevel == InitLevel /\ [][NextLevel]_vars

(***************************************************************************)
(* The conversions of binding.rs applied to bindings of every kind         *)
(***************************************************************************)
\* #[derive(Clone)] on enum Target: the copy is rebuilt variant by variant
RECURSIVE clone(_)
clone(t) ==
  CASE t.k = "Sink" -> Sink(t.idx)
    [] t.k = "Source" -> Source(t.idx)
    [] t.k = "Prop" -> PropertyMatchSink(t.prop, t.value)
    [] t.k = "Any" -> Target_Any([i \in 1..Len(t.kids) |-> clone(t.kids[i])])
    [] t.k = "All" -> Target_All([i \in 1..Len(t.kids) |-> clone(t.kids[i])])

\* let t = match self { VolumeControl(t) => t, MuteToggle(t) => t, DefaultSelect(t) => t }
binding_target(b) ==
  CASE b.kind = "VolumeControl" -> b.t
    [] b.kind = "MuteToggle" -> b.t
    [] b.kind = "DefaultSelect" -> b.t

\* to_mute gone wrong: the binding is copied as it is
to_mute_same(b) == [kind |-> b.kind, t |-> clone(binding_target(b))]

\* Binding::to_mute
to_mute(b) == mute(clone(binding_target(b)))

\* Binding::to_volume
to_volume(b) == volume(clone(binding_target(b)))

\* most children of a composite target given to the conversions
MaxKids == 2

BindLeaves == {Sink(0), Sink(1), Source(0), app_name("Firefox"), app_name("mpv")}
RECURSIVE SeqsUpTo(_, _)
SeqsUpTo(S, n) ==
  IF n = 0 THEN {<<>>}
  ELSE LET shorter == SeqsUpTo(S, n - 1)
       IN  shorter \cup {Append(q, x) : q \in {y \in shorter : Len(y) = n - 1}, x \in S}
BindComposites ==
  {Target_Any(ks) : ks \in SeqsUpTo(BindLeaves, MaxKids)}
  \cup {Target_All(ks) : ks \in SeqsUpTo(BindLeaves, MaxKids)}
BindTargets ==
  BindLeaves \cup BindComposites \cup {Target_Any(<<c, Sink(0)>>) : c \in BindComposites}
BindingInputs == {volume(t) : t \in BindTargets} \cup {mute(t) : t \in BindTargets}
                 \cup {select(t) : t \in BindTargets}

InitBinding ==
  /\ bindings \in {(1 :> b) : b \in BindingInputs}
  /\ order = <<1>>
  /\ audio = AudioInit
  /\ fault = {}
  /\ surfaceUp = TRUE
  /\ last = NoOp
  /\ result = Ok
  /\ out = <<>>
  /\ calls = <<>>
  /\ muts = <<>>
  /\ queue = <<>>
  /\ running = TRUE
  /\ handling = <<>>
  /\ listening = TRUE
  /\ overflow_checks = FALSE

\* b.to_mute() with b borrowed immutably
ToMute ==
  /\ last' = [op |-> "to_mute", self |-> bindings[1], ret |-> to_mute(bindings[1])]
  /\ UNCHANGED <<bindings, order, audio, fault, surfaceUp, result, out, calls, muts,
                 queue, running, handling, listening, overflow_checks>>

ToVolume ==
  /\ last' = [op |-> "to_volume", self |-> bindings[1], ret |-> to_volume(bindings[1])]
  /\ UNCHANGED <<bindings, order, audio, fault, surfaceUp, result, out, calls, muts,
                 queue, running, handling, listening, overflow_checks>>

NextBinding == ToMute \/ ToVolume

SpecBinding == InitBinding /\ [][NextBinding]_vars

(***************************************************************************)
(* main(): the poll thread and the MIDI input callback send into the       *)
(* channel, the loop at the end of main() receives one item at a time and  *)
(* handles it to completion.  `?` on a handler's Err returns from main().  *)
(* queue is the channel, handling the items the loop has received and not  *)
(* finished handling, listening says the input callback's thread is alive. *)
(***************************************************************************)
SyncBoard == [msg |-> "SyncBoard"]
MidiUpdate(m) == [msg |-> "MidiUpdate", bytes |-> m]

\* what the surface sends while main() runs: knob turns and button releases,
\* a control change of another channel and a two-byte program change
MainMessages ==
  {<<KNOB_UPDATE, c, 64>> : c \in Ctls} \cup {<<BTN_UP, c, 0>> : c \in DOMAIN bindings}
  \cup {<<176, c, 64>> : c \in UnboundCtl} \cup {<<202, c>> : c \in UnboundCtl}

\* Sender::send: the item goes to the back of the channel
tx_send(q, it) == Append(q, it)

\* rx_recv gone wrong: the newest item is taken first
rx_recv_newest(q) == [item |-> q[Len(q)], rest |-> SubSeq(q, 1, Len(q) - 1)]

\* Receiver::recv: the oldest item of the channel
rx_recv(q) == [item |-> Head(q), rest |-> Tail(q)]

\* loop_at_recv gone wrong: the next item is taken while one is being handled
loop_at_recv_always(h) == TRUE

\* the loop of main() is at rx.recv() when no handler is in progress
loop_at_recv(h) == h = <<>>

\* the closure given to midi_in.connect builds [message[0], message[1],
\* message[2]]: the first three bytes, and a panic on a shorter message
midi_callback(message) ==
  IF Len(message) >= 3
  THEN [ok |-> TRUE, item |-> MidiUpdate(SubSeq(message, 1, 3))]
  ELSE [ok |-> FALSE]

\* _poll_thread: tx.send(Msg::SyncBoard) every 100 ms
PollThread ==
  /\ running
  /\ Len(queue) < MaxQueue
  /\ queue' = tx_send(queue, SyncBoard)
  /\ UNCHANGED <<bindings, order, audio, fault, surfaceUp, last, result, out, calls, muts,
                 running, handling, listening, overflow_checks>>

\* the callback of midi_in.connect: midi_tx.send(Msg::MidiUpdate(..)).  A
\* panic in the callback unwinds the input thread, or aborts the process
\* where the callback is entered from foreign code.
MidiIn ==
  /\ running
  /\ listening
  /\ Len(queue) < MaxQueue
  /\ \E m \in MainMessages :
       LET cb == midi_callback(m)
       IN  IF cb.ok
           THEN queue' = tx_send(queue, cb.item) /\ UNCHANGED <<running, listening>>
           ELSE /\ queue' = queue
                /\ \/ listening' = FALSE /\ running' = running
                   \/ running' = FALSE /\ listening' = listening
  /\ UNCHANGED <<bindings, order, audio, fault, surfaceUp, last, result, out, calls, muts,
                 handling, overflow_checks>>

\* the loop of main() at rx.recv(): the next item is taken from the channel
Recv ==
  /\ running
  /\ loop_at_recv(handling)
  /\ queue # <<>>
  /\ LET r == rx_recv(queue)
     IN  handling' = Append(handling, r.item) /\ queue' = r.rest
  /\ UNCHANGED <<bindings, order, audio, fault, surfaceUp, last, result, out, calls, muts,
                 running, listening, overflow_checks>>

\* the loop of main() after rx.recv(): the handler of the item, then `?`
Consume ==
  /\ running
  /\ handling # <<>>
  /\ LET it == Head(handling)
     IN  /\ IF it.msg = "SyncBoard"
            THEN Record([op |-> "flush"], flush_values_to_board(bindings, order, audio, fault, surfaceUp))
            ELSE Record([op |-> "midi", msg |-> it.bytes],
                        handle_midi_message(bindings, audio, fault, surfaceUp, it.bytes))
  /\ handling' = Tail(handling)
  /\ running' = (result'.tag = "Ok")
  /\ UNCHANGED <<bindings, order, fault, surfaceUp, queue, listening, overflow_checks>>

EnvMain ==
  /\ running
  /\ (SinkUnplug \/ SinkPlug \/ FaultChange)

InitMain == Init /\ bindings \in {TableDevices, TableSelect}

NextMain == PollThread \/ MidiIn \/ Recv \/ Consume \/ EnvMain

SpecMain == InitMain /\ [][NextMain]_vars

\* the loop of main() is a thread of its own that does nothing but receive
\* and handle: it is never held back for ever at either step
SpecMainFair == SpecMain /\ WF_vars(Recv) /\ WF_vars(Consume)

(***************************************************************************)
(* Properties.  The logs calls, muts and out describe the last handler     *)
(* call in the state it left.                                              *)
(***************************************************************************)
Evs == {calls[n] : n \in DOMAIN calls}
IsUnder(p, q) == Len(p) >= Len(q) /\ SubSeq(p, 1, Len(q)) = q
\* the call of child j of the composite call e, and the calls below it
Kid(e, j) == {x \in Evs : x.ctl = e.ctl /\ x.path = Append(e.path, j)}
Under(e, j) == {x \in Evs : x.ctl = e.ctl /\ IsUnder(x.path, Append(e.path, j))}
Composite(e) == e.t.k \in {"First", "Any"}
Pos(c) == CHOOSE j \in DOMAIN order : order[j] = c
MinOf(S) == CHOOSE m \in S : \A n \in S : m <= n

\* C1: in every resolution of a FirstValid composite the first child is
\* called; a child that resolves NotFound is followed by a call of the next
\* child; a child that resolves Failure makes that Failure the composite's
\* result and no later child, nor anything below one, is called.
C1_FirstValidShortCircuits ==
  \A e \in Evs : Composite(e) =>
    \A j \in 1..Len(e.t.kids) :
      /\ (j = 1 => Kid(e, 1) # {})
      /\ \A x \in Kid(e, j) :
           /\ (x.r.res = "NotFound" /\ j < Len(e.t.kids) => Kid(e, j + 1) # {})
           /\ (x.r.res = "Failure" =>
                 /\ e.r = x.r
                 /\ \A j2 \in (j + 1)..Len(e.t.kids) : Under(e, j2) = {})

\* a composite of three whose first child was NotFound and whose second failed
C1_Witness ==
  \E e \in Evs :
    /\ Composite(e) /\ Len(e.t.kids) >= 3
    /\ \E x \in Kid(e, 1) : x.r.res = "NotFound"
    /\ \E x \in Kid(e, 2) : x.r.res = "Failure"
    /\ e.r.res = "Failure"

\* the result child j of a composite has on its own, in the current audio state
Own(e, j) == get_target(e.t.kids[j], audio, fault, e.ctl, <<>>).r
Valid(e) == {j \in 1..Len(e.t.kids) : Own(e, j).res # "NotFound"}

\* C2: after a handler that changed nothing in the audio state, the result of
\* every FirstValid composite it resolved is the own result of the first
\* child, in declaration order, that is not NotFound, and NotFound when
\* every child is NotFound or there is no child.
C2_FirstValidResult ==
  muts = <<>> =>
    \A e \in Evs : e.t.k = "First" =>
      e.r = IF Valid(e) = {} THEN NotFound ELSE Own(e, MinOf(Valid(e)))

\* a composite that skipped a NotFound child and found a stream
C2_Witness ==
  /\ muts = <<>>
  /\ \E e \in Evs : e.t.k = "First" /\ e.r.res = "Found" /\ Valid(e) # {} /\ MinOf(Valid(e)) > 1

\* C3 as claimed: no operation of target.rs on a StaticSink, StaticSource,
\* SinkWithProperty or Any target panics, and an errored query inside it makes
\* it return Err.
C3_FailureNeverCrashes ==
  (last.op = "target" /\ last.t.k # "All") =>
    /\ result.tag # "Panic"
    /\ ((\E e \in Evs : e.r.res = "Failure") => result.tag = "Err")

DeviceThere(t) ==
  IF t.k = "Sink"
  THEN "sinks" \notin fault /\ t.idx \in DOMAIN audio.sinks /\ audio.sinks[t.idx].present
  ELSE "sources" \notin fault /\ t.idx \in DOMAIN audio.sources /\ audio.sources[t.idx].present

\* C4: a Sink or Source getter never returns NotFound: it returns Found, with
\* the device of its own index and kind, exactly when the device query
\* succeeds, and Failure otherwise.
C4_StaticDeviceNeverNotFound ==
  \A e \in Evs : e.t.k \in {"Sink", "Source"} =>
    /\ e.r.res # "NotFound"
    /\ IF DeviceThere(e.t)
       THEN /\ e.r.res = "Found"
            /\ e.r.ent.index = e.t.idx
            /\ e.r.ent.kind = IF e.t.k = "Sink" THEN "DeviceSink" ELSE "DeviceSource"
       ELSE e.r.res = "Failure"

\* a getter of the sink index that no longer exists
C4_Witness ==
  \E e \in Evs : e.t = Sink(1) /\ ~audio.sinks[1].present /\ e.r.res = "Failure"

\* the positions of the streams whose property t.prop is t.value
Matching(t) ==
  {n \in 1..Len(audio.apps) :
     \E key \in DOMAIN audio.apps[n].proplist :
        key = t.prop /\ audio.apps[n].proplist[key] = t.value}

\* C5: a PropertyMatchSink getter returns Failure exactly when listing the
\* streams errors; otherwise NotFound when no stream matches and else the
\* stream at the first matching position of the list.
C5_PropertyMatchFirst ==
  \A e \in Evs : e.t.k = "Prop" =>
    IF "apps" \in fault THEN e.r.res = "Failure"
    ELSE IF Matching(e.t) = {} THEN e.r = NotFound
    ELSE /\ e.r.res = "Found"
         /\ e.r.ent.kind = "AppSink"
         /\ e.r.ent.index = audio.apps[MinOf(Matching(e.t))].index

\* two streams match and the getter returned one
C5_Witness ==
  \E e \in Evs : e.t.k = "Prop" /\ e.r.res = "Found" /\ Cardinality(Matching(e.t)) >= 2

\* the outbound messages of the last handler that carry control index c
MsgsFor(c) == {m \in DOMAIN out : out[m][2] = c}

\* C6 as claimed: a flush that returned Ok sent exactly one message for every
\* bound index.
C6_OneMessagePerControl ==
  (last.op = "flush" /\ result.tag = "Ok") =>
    \A c \in DOMAIN bindings : Cardinality(MsgsFor(c)) = 1

\* what polling control c returns as its error in the current audio state,
\* "" when the poll does not fail
DefaultQueryFails(e) ==
  IF e.kind = "DeviceSink" THEN "sinks" \in fault ELSE "sources" \in fault
PollError(c) ==
  LET r == get_target(bindings[c].t, audio, fault, c, <<>>).r
  IN  CASE r.res = "Failure" -> r.err
        [] r.res = "Found" /\ bindings[c].kind = "DefaultSelect" /\ r.ent.kind = "AppSink" ->
             "App sinks can't be used for select bindings"
        [] r.res = "Found" /\ bindings[c].kind = "DefaultSelect" /\ r.ent.kind # "AppSink"
           /\ DefaultQueryFails(r.ent) -> "pulse: query failed"
        [] OTHER -> ""
Failing == {j \in DOMAIN order : PollError(order[j]) # ""}

\* C7: when the poll of some control fails, the flush returns an error, and
\* every message it sent is for a control that comes before the first
\* failing one in the iteration order: nothing is sent for the failing
\* control or for those after it.  The error returned is the poll's error,
\* unless a send for an earlier control had failed already.
C7_FlushAbortsOnFailure ==
  (last.op = "flush" /\ Failing # {}) =>
    LET n == MinOf(Failing)
    IN  /\ result.tag = "Err"
        /\ \A m \in DOMAIN out : Pos(out[m][2]) < n
        /\ (result.err = PollError(order[n]) \/ (~surfaceUp /\ result.err = SendFailed))
        /\ (surfaceUp => result.err = PollError(order[n]))

\* a flush whose first control was shown and whose second control failed
C7_Witness ==
  /\ last.op = "flush" /\ Failing # {} /\ MinOf(Failing) = 2
  /\ Len(out) = 1 /\ result.tag = "Err"

\* C8 as claimed: after a flush that failed, main() is still running.
C8_FlushFailureKeepsRunning ==
  (last.op = "flush" /\ result.tag = "Err") => running

KnobOnUnbound ==
  last.op = "midi" /\ Len(last.msg) = 3 /\ last.msg[1] = KNOB_UPDATE
  /\ last.msg[2] \notin DOMAIN bindings

\* C9 as claimed: a knob message for an unbound index sends exactly the
\* reset, mutates nothing and returns Ok.
C9_UnboundKnobAlwaysResets ==
  KnobOnUnbound =>
    /\ out = <<(<<KNOB_UPDATE, last.msg[2], 0>>)>>
    /\ muts = <<>>
    /\ result = Ok

\* C9: a knob message for an unbound index mutates nothing and calls no
\* getter; when the output port takes the message, exactly the reset
\* [0xBA, i, 0] is sent and Ok returned; when the send fails nothing is sent
\* and the send's error is returned.
C9_UnboundKnobResets ==
  KnobOnUnbound =>
    /\ muts = <<>> /\ calls = <<>>
    /\ IF surfaceUp
       THEN out = <<(<<KNOB_UPDATE, last.msg[2], 0>>)>> /\ result = Ok
       ELSE out = <<>> /\ result = Err(SendFailed)

C9_Witness ==
  KnobOnUnbound /\ surfaceUp /\ last.msg[3] = 64 /\ out = <<(<<KNOB_UPDATE, 7, 0>>)>>

IsEvent(op) == last.op = "midi" /\ Len(last.msg) = 3 /\ last.msg[1] = op
BoundAs(kinds) == last.msg[2] \in DOMAIN bindings /\ bindings[last.msg[2]].kind \in kinds
WrongKind ==
  \/ ((IsEvent(BTN_DOWN) \/ IsEvent(BTN_UP)) /\ BoundAs({"VolumeControl"}))
  \/ (IsEvent(KNOB_UPDATE) /\ BoundAs({"MuteToggle", "DefaultSelect"}))

Resolved(c) == {e \in Evs : e.ctl = c /\ e.path = <<>>}
MuteOp(e) ==
  CASE e.kind = "DeviceSink" -> "set_sink_mute"
    [] e.kind = "DeviceSource" -> "set_source_mute"
    [] e.kind = "AppSink" -> "set_app_mute"
\* the mute flags, in the current audio state, of the entities of e's kind and index
MuteNow(e) ==
  CASE e.kind = "DeviceSink" -> {audio.sinks[e.index].mute}
    [] e.kind = "DeviceSource" -> {audio.sources[e.index].mute}
    [] e.kind = "AppSink" -> {audio.apps[n].mute : n \in {x \in 1..Len(audio.apps) : audio.apps[x].index = e.index}}

\* C11: after a button release on a MuteToggle index whose getter resolved
\* to an entity with mute flag m, the handler has issued one mutation and no
\* other: the mute-set of that entity's kind, on that entity's index, with
\* value ~m; the entity's flag is now ~m, nothing was sent and Ok returned.
C11_ReleaseTogglesMute ==
  (IsEvent(BTN_UP) /\ BoundAs({"MuteToggle"})) =>
    \A e \in Resolved(last.msg[2]) : e.r.res = "Found" =>
      /\ muts = <<Mut(MuteOp(e.r.ent), e.r.ent.index, ~e.r.ent.mute)>>
      /\ MuteNow(e.r.ent) = {~e.r.ent.mute}
      /\ out = <<>>
      /\ result = Ok

\* the release of button 34 has muted the microphone
C11_Witness ==
  /\ IsEvent(BTN_UP) /\ last.msg[2] = 34 /\ BoundAs({"MuteToggle"})
  /\ muts = <<Mut("set_source_mute", 0, TRUE)>>
  /\ audio.sources[0].mute

PressOnButton == IsEvent(BTN_DOWN) /\ BoundAs({"MuteToggle", "DefaultSelect"})
DiscreteOnUnbound ==
  (IsEvent(BTN_DOWN) \/ IsEvent(BTN_UP)) /\ last.msg[2] \notin DOMAIN bindings
ButtonMutations ==
  {"set_sink_mute", "set_source_mute", "set_app_mute", "set_default_sink", "set_default_source"}

\* C12: a button press on a MuteToggle or DefaultSelect index, and a press
\* or release on an unbound index, calls no getter, mutates nothing, sends
\* nothing and returns Ok; a mute-set or a default-set is only ever issued
\* by the handler of a button release.
C12_PressAndUnboundIgnored ==
  /\ (PressOnButton \/ DiscreteOnUnbound) =>
       muts = <<>> /\ out = <<>> /\ calls = <<>> /\ result = Ok
  /\ (last.op = "midi" /\ \E n \in DOMAIN muts : muts[n].op \in ButtonMutations) =>
       IsEvent(BTN_UP)

\* a press of the microphone's mute button, which is there to be muted
C12_Witness ==
  /\ PressOnButton /\ bindings[last.msg[2]] = mute(Source(0))
  /\ audio.sources[0].present /\ fault = {}
  /\ muts = <<>> /\ result = Ok

AppResolved(c) == \E e \in Resolved(c) : e.r.res = "Found" /\ e.r.ent.kind = "AppSink"
SelectOnApp ==
  IsEvent(BTN_UP) /\ BoundAs({"DefaultSelect"}) /\ AppResolved(last.msg[2])

\* the state part of C13
C13_Fails ==
  /\ SelectOnApp => result.tag = "Err" /\ muts = <<>> /\ out = <<>>
  /\ last.op = "flush" =>
       \A c \in DOMAIN bindings :
         (bindings[c].kind = "DefaultSelect" /\ AppResolved(c)) =>
            result.tag = "Err" /\ MsgsFor(c) = {}

\* the step part of C13
C13_DefaultsKept ==
  SelectOnApp' => (audio'.defSink = audio.defSink /\ audio'.defSource = audio.defSource)

\* C13: a button release on a DefaultSelect index whose getter resolved to an
\* application stream returns an error, mutates nothing and leaves the
\* default sink and source as they were; a flush that resolves the getter of
\* a DefaultSelect index to an application stream returns an error and has
\* sent no message for that index.
C13_AppStreamSelectFails == []C13_Fails /\ [][C13_DefaultsKept]_vars

\* a flush met a DefaultSelect control whose getter found a stream
C13_Witness ==
  /\ last.op = "flush" /\ result.tag = "Err"
  /\ \E c \in DOMAIN bindings : bindings[c].kind = "DefaultSelect" /\ AppResolved(c)

\* C14: whatever the kind of the binding b that to_mute was called on, the
\* binding returned is a MuteToggle, its target is equal to the target of b,
\* children and their order included, and b is as it was before the call.
C14_ToMuteKeepsTarget ==
  last.op = "to_mute" =>
    /\ last.ret.kind = "MuteToggle"
    /\ last.ret.t = last.self.t
    /\ bindings[1] = last.self

\* to_mute on a DefaultSelect binding of a composite with two children
C14_Witness ==
  /\ last.op = "to_mute" /\ last.self.kind = "DefaultSelect"
  /\ last.self.t.k = "Any" /\ Len(last.self.t.kids) = 2
  /\ last.ret = mute(last.self.t)

KnobWrote ==
  IsEvent(KNOB_UPDATE) /\ BoundAs({"VolumeControl"}) /\ result = Ok /\ muts # <<>>
\* what a flush sends for control c in the current audio state, the output
\* port taking it
ShownFor(c) == flush_one(c, bindings[c], audio, fault, TRUE, St(Ok, <<>>, <<>>)).out
Near(x, k) == x - k \in -1..1
\* every knob position, through the volume written for it and back
ScalingNear ==
  \A k \in 0..127 :
    Near(knob_level(knob_volume(k)), k) /\ Near(knob_level(target_volume(k)), k)

FlushNow == flush_values_to_board(bindings, order, audio, fault, surfaceUp)

Sent(m, op) == Len(out[m]) = 3 /\ out[m][1] = op
LevelCtl(c) == c \notin DOMAIN bindings \/ bindings[c].kind = "VolumeControl"

\* C17 as claimed: levels and resets are sent with 0xBA, indicators of
\* MuteToggle and DefaultSelect controls with 0x8A, and 0x9A is never sent.
C17_IndicatorsUseRelease ==
  \A m \in DOMAIN out :
    /\ Sent(m, IF LevelCtl(out[m][2]) THEN KNOB_UPDATE ELSE BTN_UP)
    /\ ~Sent(m, BTN_DOWN)

\* C17: every outbound message has three bytes; a message for a VolumeControl
\* index or for an unbound index has opcode 0xBA, a message for a MuteToggle
\* or DefaultSelect index has opcode 0x9A; 0x8A is never sent.
C17_WireFormat ==
  \A m \in DOMAIN out :
    /\ Sent(m, IF LevelCtl(out[m][2]) THEN KNOB_UPDATE ELSE BTN_DOWN)
    /\ ~Sent(m, BTN_UP)

\* a flush lit the indicator of the selected sink and of a muted entity
C17_Witness ==
  /\ last.op = "flush"
  /\ \E m \in DOMAIN out : out[m][1] = BTN_DOWN /\ out[m][3] \in {1, 127}
  /\ \A m \in DOMAIN out : ~LevelCtl(out[m][2])

\* C18, the state part: the loop of main() has at most one item in progress
C18_OneAtATime == Len(handling) <= 1

\* C18, the step part: a step that produces a handler's result finishes the
\* item in progress and takes nothing from the channel; a step that puts an
\* item into the channel leaves the audio state, the surface and the logs
\* of the handlers alone, and so does the step that takes an item
C18_Steps ==
  /\ (<<result, out, calls, muts>>' # <<result, out, calls, muts>> /\ last' # NoOp) =>
       (handling # <<>> /\ handling' = Tail(handling) /\ queue' = queue)
  /\ (Len(queue') # Len(queue)) =>
       UNCHANGED <<audio, fault, surfaceUp, last, result, out, calls, muts, bindings>>
  /\ (Len(handling') > Len(handling)) => handling = <<>>

\* C18: no two handlers are ever in progress together: an item is taken
\* only when none is in progress, handlers run only for the item in
\* progress, and the two producers only put items into the channel.
C18_MutualExclusion == []C18_OneAtATime /\ [][C18_Steps]_vars

\* a hardware message is being handled while a flush request waits
C18_Witness ==
  /\ Len(handling) = 1 /\ handling[1].msg = "MidiUpdate"
  /\ queue # <<>> /\ queue[1] = SyncBoard

\* the log entry a handler leaves for item it
LastOf(it) == IF it.msg = "SyncBoard" THEN [op |-> "flush"] ELSE [op |-> "midi", msg |-> it.bytes]

C19_Steps ==
  /\ (Len(queue') > Len(queue)) =>
       (Len(queue') = Len(queue) + 1 /\ SubSeq(queue', 1, Len(queue)) = queue)
  /\ (Len(queue') < Len(queue)) =>
       (queue' = Tail(queue) /\ handling' = Append(handling, Head(queue)))
  /\ (Len(handling') > Len(handling)) =>
       (queue # <<>> /\ queue' = Tail(queue) /\ handling' = Append(handling, Head(queue)))
  /\ (Len(handling') < Len(handling)) =>
       (handling' = Tail(handling) /\ last' = LastOf(Head(handling)))

\* C19: a new item goes to the back of the channel, the loop takes the item
\* at the front, and the handler that runs next is the one of the item
\* taken: items are handled in the order they were put into the channel.
C19_ArrivalOrder == [][C19_Steps]_vars

\* a flush request is in progress, taken before the knob message behind it
C19_Witness ==
  /\ handling = <<SyncBoard>>
  /\ queue # <<>> /\ queue[1].msg = "MidiUpdate" /\ queue[1].bytes[1] = KNOB_UPDATE

Unknown(m) == ~(Len(m) = 3 /\ m[1] \in {KNOB_UPDATE, BTN_DOWN, BTN_UP})

\* C20 as claimed: whatever bytes the surface sends, the input callback
\* stays alive and main() only ever stops on a handler's error; a message
\* that is none of the three kinds is handled with Ok, mutates nothing and
\* sends nothing.
C20_UnknownIgnored ==
  /\ listening
  /\ (running \/ result.tag # "Ok")
  /\ (last.op = "midi" /\ Unknown(last.msg)) =>
       (result = Ok /\ muts = <<>> /\ out = <<>> /\ running)

\* the mean of one or two channels, rounded down
Mean(cv) == IF Len(cv) = 1 THEN cv[1] ELSE (cv[1] + cv[2]) \div 2
VolumeCtl(c) == c \in DOMAIN bindings /\ bindings[c].kind = "VolumeControl"
Sends(c) == {out[m] : m \in MsgsFor(c)}

\* C21: a flush that resolved the getter of a VolumeControl index i to an
\* entity whose channel mean is within the native range 0..NORMAL has sent
\* for i exactly [0xBA, i, L] with L = floor(mean * 127 / NORMAL), the same
\* for one channel and for two: 0 for 0%, 63 for 50%, 127 for 100%.  When
\* the getter resolved NotFound it has sent exactly [0xBA, i, 0].
C21_LevelIsScaledAverage ==
  last.op = "flush" =>
    \A c \in DOMAIN bindings : VolumeCtl(c) =>
      \A e \in Resolved(c) :
        /\ (e.r.res = "Found" /\ Mean(e.r.ent.volume) <= NORMAL) =>
             /\ Cardinality(MsgsFor(c)) = 1
             /\ Sends(c) = {<<KNOB_UPDATE, c, (Mean(e.r.ent.volume) * 127) \div NORMAL>>}
             /\ (Mean(e.r.ent.volume) = NORMAL \div 2 => Sends(c) = {<<KNOB_UPDATE, c, 63>>})
             /\ (Mean(e.r.ent.volume) = NORMAL => Sends(c) = {<<KNOB_UPDATE, c, 127>>})
             /\ (Mean(e.r.ent.volume) = 0 => Sends(c) = {<<KNOB_UPDATE, c, 0>>})
        /\ e.r.res = "NotFound" =>
             (Cardinality(MsgsFor(c)) = 1 /\ Sends(c) = {<<KNOB_UPDATE, c, 0>>})

\* stereo speakers with one channel off and one at 100%, and a mono stream
\* at 50%, are both shown as 63
C21_Witness ==
  /\ last.op = "flush" /\ result = Ok
  /\ audio.sinks[0].volume = <<0, NORMAL>>
  /\ audio.apps # <<>> /\ audio.apps[1].volume = Mono(NORMAL \div 2)
  /\ Sends(11) = {<<KNOB_UPDATE, 11, 63>>} /\ Sends(13) = {<<KNOB_UPDATE, 13, 63>>}

\* C22 as claimed: whatever the volumes, the index and the value of every
\* outbound message are within 0..127, the product of the level computation
\* fits 32 bits and the flush does not panic.
C22_BytesInRange ==
  /\ \A m \in DOMAIN out : out[m][2] \in 0..127 /\ out[m][3] \in 0..127
  /\ result.tag # "Panic"
  /\ last.op = "flush" =>
       \A e \in Evs : (VolumeCtl(e.ctl) /\ e.path = <<>> /\ e.r.res = "Found") =>
          ~level_overflows(avg(e.r.ent.volume))

\* the last message was of the kind its control is bound for
MatchingKind ==
  \/ (IsEvent(KNOB_UPDATE) /\ BoundAs({"VolumeControl"}))
  \/ (IsEvent(BTN_UP) /\ BoundAs({"MuteToggle", "DefaultSelect"}))
Absent(c) == \E e \in Resolved(c) : e.r = NotFound

\* C23: a knob message on a VolumeControl index, and a button release on a
\* MuteToggle or DefaultSelect index, whose getter resolved NotFound returns
\* Ok, has mutated nothing and has sent nothing.
C23_AbsenceIsSilent ==
  (MatchingKind /\ Absent(last.msg[2])) =>
    (result = Ok /\ muts = <<>> /\ out = <<>>)

\* the knob of Firefox was turned while Firefox was not playing
C23_Witness ==
  /\ IsEvent(KNOB_UPDATE) /\ BoundAs({"VolumeControl"}) /\ Absent(last.msg[2])
  /\ bindings[last.msg[2]].t = FirefoxOrNone
  /\ Matching(app_name("Firefox")) = {}
  /\ result = Ok

\* the entities of the current audio state with the kind and index of ent,
\* as [volume, mute]
Live(ent) ==
  CASE ent.kind = "DeviceSink" ->
         {[volume |-> audio.sinks[i].volume, mute |-> audio.sinks[i].mute] :
            i \in {x \in DOMAIN audio.sinks : x = ent.index /\ audio.sinks[x].present}}
    [] ent.kind = "DeviceSource" ->
         {[volume |-> audio.sources[i].volume, mute |-> audio.sources[i].mute] :
            i \in {x \in DOMAIN audio.sources : x = ent.index /\ audio.sources[x].present}}
    [] ent.kind = "AppSink" ->
         {[volume |-> audio.apps[n].volume, mute |-> audio.apps[n].mute] :
            n \in {x \in 1..Len(audio.apps) : audio.apps[x].index = ent.index}}
Getter(e) == e.t.k \in {"Sink", "Source", "Prop", "First"}
FoundBy(c) == {e.r.ent : e \in {x \in Resolved(c) : x.r.res = "Found"}}

\* C24: every entity a flush resolved is an entity of the audio state the
\* flush ran in, with that state's volume and mute flag, and the level and
\* the mute indicator the flush sent are those of that state; the mutation
\* a hardware message made is on an entity of the current audio state, the
\* one its getter resolved to, and that entity now has the value written.
C24_NoStaleState ==
  /\ last.op = "flush" =>
       /\ \A e \in Evs : (Getter(e) /\ e.r.res = "Found") =>
            Live(e.r.ent) = {[volume |-> e.r.ent.volume, mute |-> e.r.ent.mute]}
       /\ \A c \in DOMAIN bindings : \A ent \in FoundBy(c) : \A m \in MsgsFor(c) : \A lv \in Live(ent) :
            /\ bindings[c].kind = "VolumeControl" => out[m][3] = (Mean(lv.volume) * 127) \div NORMAL
            /\ bindings[c].kind = "MuteToggle" => out[m][3] = (IF lv.mute THEN 1 ELSE 0)
  /\ (last.op = "midi" /\ muts # <<>>) =>
       /\ Len(muts) = 1
       /\ \A ent \in FoundBy(last.msg[2]) :
            /\ muts[1].index = ent.index
            /\ Live(ent) # {}
            /\ \A lv \in Live(ent) :
                 /\ muts[1].op \in {"set_sink_volume", "set_sink_input_volume"} =>
                      (lv.volume = muts[1].v /\ lv.mute = ent.mute)
                 /\ muts[1].op \in {"set_sink_mute", "set_source_mute", "set_app_mute"} =>
                      (lv.mute = muts[1].v /\ lv.volume = ent.volume)

\* a flush after the first Firefox stream has gone and another has come,
\* and after a knob has changed the volume of the one now playing
C24_Witness ==
  /\ last.op = "flush" /\ result = Ok
  /\ Len(audio.apps) = 1 /\ audio.apps[1].index = 1
  /\ audio.apps[1].volume # Stereo(NORMAL)
  /\ \E e \in Evs : e.t.k = "Prop" /\ e.r.res = "Found" /\ e.r.ent.index = 1
                    /\ e.r.ent.volume = audio.apps[1].volume

\* the composite whose first child is an absent stream and whose second is
\* a sink that is plugged in, with every query answering
FirstChildIsSink ==
  /\ last.t = Target_Any(<<app_name("Firefox"), Sink(1), Source(0)>>)
  /\ Matching(app_name("Firefox")) = {}
  /\ fault = {}
  /\ audio.sinks[1].present

\* C25: selected and set_as_selected on a composite whose first child that
\* resolves is a sink succeed, and set_as_selected leaves that sink the
\* default sink.
C25_CompositeSelects ==
  (last.op = "target" /\ last.fn \in {"selected", "set_as_selected"} /\ FirstChildIsSink) =>
    /\ result = Ok
    /\ last.fn = "set_as_selected" => audio.defSink = 1

\* C26: a knob message on a control bound to the volume of a source that
\* resolves completes without a panic and makes one mutation, the volume of
\* the source of that index.
C26_SourceVolumeOnly ==
  (/\ IsEvent(KNOB_UPDATE) /\ BoundAs({"VolumeControl"})
   /\ bindings[last.msg[2]].t.k = "Source"
   /\ \E e \in Resolved(last.msg[2]) : e.r.res = "Found") =>
    /\ result.tag # "Panic"
    /\ Len(muts) = 1
    /\ muts[1].op = "set_source_volume"
    /\ muts[1].index = bindings[last.msg[2]].t.idx

\* C27: a step that is a flush, whatever its result, leaves the audio state
\* (every volume and mute flag, the streams, the default sink and source),
\* the binding table and its order as they were, and records no mutation.
C27_FlushReadOnly ==
  [][last'.op = "flush" =>
       (audio' = audio /\ bindings' = bindings /\ order' = order /\ muts' = <<>>)]_vars

\* a flush that sent a message and then was aborted, over an audio state
\* that handlers and the environment have changed
C27_Witness ==
  /\ last.op = "flush" /\ result.tag = "Err" /\ out # <<>>
  /\ \E i \in DOMAIN audio.sinks : audio.sinks[i].present /\ audio.sinks[i].mute

\* main() has stopped for a reason other than a failed resolution: a
\* binding of the wrong kind, a failed send to the surface, or a panic, in
\* a handler or in the input callback
KindMismatch ==
  {"Only knobs can be bound to volume control", "Buttons can not be bound to volume control"}
Excused ==
  /\ ~running
  /\ \/ result.tag \in {"Ok", "Panic"}
     \/ result.tag = "Err" /\ result.err \in KindMismatch \cup {SendFailed}

\* C28: under fair scheduling of the loop of main(), whenever the channel
\* holds an item the loop eventually takes its oldest item, and an item
\* taken is eventually handled, unless main() was stopped by a binding of
\* the wrong kind or a failed send.
C28_EveryItemHandled ==
  /\ (queue # <<>>) ~> (handling # <<>> \/ Excused)
  /\ (handling # <<>>) ~> ((handling = <<>> /\ last.op \in {"flush", "midi"}) \/ Excused)

====
